---------------------------- MODULE Spec2Model ----------------------------
(***************************************************************************)
(* Job-search adapters of jobs/search_api.py:                              *)
(*   fetch_google_jobs_serpapi  (paid API, one request per query)          *)
(*   enhanced_jobicy_search     (Jobicy API, then two RSS feeds)           *)
(* Strings are sequences of one-character strings, so that lower-casing,   *)
(* concatenation, blankness and substring search are computed.             *)
(***************************************************************************)
EXTENDS Integers, Sequences, FiniteSets, TLC

VARIABLES
    pc,            \* position in the running function
    roles,         \* detected_roles, the RoleProfile argument
    limit,         \* the limit argument
    api_key,       \* what _get_serpapi_key() returns
    location,      \* the location argument
    queries,       \* the strings the for loop of fetch_google_jobs_serpapi iterates
    qi,            \* index of the current query
    ri,            \* index of the current raw listing / entry
    all_jobs,      \* accumulator of fetch_google_jobs_serpapi
    requests,      \* params of every GoogleSearch(params).get_dict() call so far
    responses,     \* what each of those calls produced, in call order
    today,         \* datetime.date.today(), as a day number
    api_data,      \* what the Jobicy endpoint answers
    feeds,         \* what feedparser.parse answers for each of _RSS_FEEDS
    search_terms,  \* search_terms of enhanced_jobicy_search
    fi,            \* index of the current RSS feed
    matched,       \* accumulator of enhanced_jobicy_search
    job,           \* one raw listing handed to the mapping code
    jd,            \* outcome of mapping it
    result,        \* the returned list
    response       \* what ask_ollama returned to detect_suitable_job_roles

vars == <<pc, roles, limit, api_key, location, queries, qi, ri, all_jobs,
          requests, responses, today, api_data, feeds, search_terms, fi,
          matched, job, jd, result, response>>

(***************************************************************************)
(* Strings                                                                 *)
(***************************************************************************)
UpperChars == <<"A","B","C","D","E","F","G","H","I","J","K","L","M",
                "N","O","P","Q","R","S","T","U","V","W","X","Y","Z">>

LowerChars == <<"a","b","c","d","e","f","g","h","i","j","k","l","m",
                "n","o","p","q","r","s","t","u","v","w","x","y","z">>

\* str.lower() on one character
LowerChar(c) ==
    IF \E i \in 1..Len(UpperChars) : UpperChars[i] = c
    THEN LowerChars[CHOOSE i \in 1..Len(UpperChars) : UpperChars[i] = c]
    ELSE c

\* str.lower()
Lower(s) == [i \in 1..Len(s) |-> LowerChar(s[i])]

\* Python's  t in s  on strings
IsSubstr(t, s) ==
    \E i \in 0..(Len(s) - Len(t)) : SubSeq(s, i + 1, i + Len(t)) = t

\* whitespace-only, non-empty
IsBlank(s) == Len(s) > 0 /\ \A i \in 1..Len(s) : s[i] = " "

Min(a, b) == IF a < b THEN a ELSE b

\* s[:n] for n >= 0
Slice(s, n) == SubSeq(s, 1, Min(n, Len(s)))

TruncateNone(acc, lim) == acc

\* return acc[:limit]
Truncate(acc, lim) == Slice(acc, lim)

\* Python's None, and the marker of a key that a dict does not have
None == "<None>"

Absent == "<absent>"

Space == <<" ">>

(***************************************************************************)
(* Query list of fetch_google_jobs_serpapi                                 *)
(***************************************************************************)
AltSliceLen == 2

KeywordSliceLen == 2

BuildQueryListNoLower(r) ==
    <<r.primary_role, r.primary_role \o Space \o r.career_level>>
        \o Slice(r.alternative_roles, AltSliceLen)
        \o Slice(r.recommended_keywords, KeywordSliceLen)

\* queries = [primary, f"{primary} {level.lower()}"]; extend(alt[:2]); extend(kw[:2])
BuildQueryList(r) ==
    <<r.primary_role, r.primary_role \o Space \o Lower(r.career_level)>>
        \o Slice(r.alternative_roles, AltSliceLen)
        \o Slice(r.recommended_keywords, KeywordSliceLen)

\* filter(None, queries): drops the falsy entries, i.e. the empty strings
FilterNone(qs) == SelectSeq(qs, LAMBDA q : q # <<>>)

IteratedQueries(r) == FilterNone(BuildQueryList(r))

(***************************************************************************)
(* Raw listings of the paid API and their mapping                          *)
(***************************************************************************)
\* dict.get(key): an absent key reads as None
Get(v) == IF v = Absent THEN None ELSE v

\* Python truthiness of a string-or-None value
Truthy(v) == v # None /\ v # ""

NoList == [kind |-> "absent", elems |-> <<>>]

NullList == [kind |-> "null", elems |-> <<>>]

ListOf(es) == [kind |-> "list", elems |-> es]

\* (job.get("related_links") or [{}])[0].get("link")
RelatedLink(j) ==
    IF j.related_links.kind = "list" /\ Len(j.related_links.elems) > 0
    THEN Get(j.related_links.elems[1])
    ELSE None

\* job.get("apply_options", [{}])[0] raises TypeError on None, IndexError on []
ApplyOptionsRaises(j) ==
    \/ j.apply_options.kind = "null"
    \/ j.apply_options.kind = "list" /\ Len(j.apply_options.elems) = 0

\* job.get("apply_options", [{}])[0].get("link"), where it does not raise
ApplyOptionsLink(j) ==
    IF j.apply_options.kind = "list" /\ Len(j.apply_options.elems) > 0
    THEN Get(j.apply_options.elems[1])
    ELSE None

\* a or b or c or d or e, with the operands evaluated left to right
LinkChain(j) ==
    IF Truthy(RelatedLink(j)) THEN [raised |-> FALSE, link |-> RelatedLink(j)]
    ELSE IF ApplyOptionsRaises(j) THEN [raised |-> TRUE, link |-> None]
    ELSE IF Truthy(ApplyOptionsLink(j))
         THEN [raised |-> FALSE, link |-> ApplyOptionsLink(j)]
    ELSE IF Truthy(Get(j.search_link))
         THEN [raised |-> FALSE, link |-> Get(j.search_link)]
    ELSE IF Truthy(Get(j.apply_link))
         THEN [raised |-> FALSE, link |-> Get(j.apply_link)]
    ELSE [raised |-> FALSE, link |-> Get(j.link)]

\* job.get("detected_extensions", {}).get(...) raises AttributeError on None
ExtensionsRaise(j) == j.detected_extensions.kind = "null"

Extension(j, field) ==
    IF j.detected_extensions.kind = "dict"
    THEN Get(j.detected_extensions[field])
    ELSE None

MatchesPrefix == <<"M", "a", "t", "c", "h", "e", "s", ":", " ">>

\* f"Matches: {query}"
MatchReason(q) == MatchesPrefix \o q

\* body of  for job in res.get("jobs_results", [])  up to the duplicate test:
\* a raw listing that is no dict raises on job.get
MapJob(j, q) ==
    IF ~j.is_dict \/ LinkChain(j).raised \/ ExtensionsRaise(j)
    THEN [raised |-> TRUE, jd |-> None]
    ELSE [raised |-> FALSE,
          jd |-> [title         |-> Get(j.title),
                  company       |-> Get(j.company_name),
                  location      |-> Get(j.location),
                  link          |-> LinkChain(j).link,
                  posted        |-> Extension(j, "posted_at"),
                  schedule_type |-> Extension(j, "schedule_type"),
                  via           |-> Get(j.via),
                  match_reason  |-> MatchReason(q)]]

IsDuplicateNever(d, acc) == FALSE

\* any(jd["title"] == e["title"] and jd["company"] == e["company"] for e in all_jobs)
IsDuplicate(d, acc) ==
    \E k \in 1..Len(acc) : d.title = acc[k].title /\ d.company = acc[k].company

(***************************************************************************)
(* Request parameters                                                      *)
(***************************************************************************)
RECURSIVE LStrip(_)
LStrip(s) == IF Len(s) > 0 /\ s[1] = " " THEN LStrip(Tail(s)) ELSE s

RECURSIVE RStrip(_)
RStrip(s) ==
    IF Len(s) > 0 /\ s[Len(s)] = " " THEN RStrip(SubSeq(s, 1, Len(s) - 1)) ELSE s

\* str.strip()
Strip(s) == RStrip(LStrip(s))

RemoteWord == <<"r", "e", "m", "o", "t", "e">>

\* params of one request; "location" is set only if
\* location.strip().lower() != "remote"
Params(q) ==
    [engine   |-> "google_jobs",
     q        |-> q \o Space \o RemoteWord,
     hl       |-> "en",
     gl       |-> "us",
     api_key  |-> api_key,
     no_cache |-> FALSE,
     location |-> IF Lower(Strip(location)) # RemoteWord THEN location ELSE Absent]

(***************************************************************************)
(* Inputs of fetch_google_jobs_serpapi                                     *)
(***************************************************************************)
MaxLimit == 2

MaxResults == 2

SeqsUpTo(S, n) == UNION {[1..k -> S] : k \in 0..n}

\* the sequences of pairwise different elements
DistinctSeqsUpTo(S, n) ==
    {s \in SeqsUpTo(S, n) : \A a, b \in 1..Len(s) : a # b => s[a] # s[b]}

NoExtensions == [kind |-> "absent", posted_at |-> Absent, schedule_type |-> Absent]

NullExtensions == [kind |-> "null", posted_at |-> Absent, schedule_type |-> Absent]

RawJob(t, c, rl, ao, sl, al, l) ==
    [is_dict |-> TRUE, title |-> t, company_name |-> c, location |-> Absent,
     via |-> Absent, related_links |-> rl, apply_options |-> ao,
     search_link |-> sl, apply_link |-> al, link |-> l,
     detected_extensions |-> NoExtensions]

\* listing with an original-listing link
JobA == RawJob("T1", "C1", ListOf(<<"rl">>), NoList, Absent, Absent, Absent)

\* same (title, company) as JobA, only apply_link populated
JobB == RawJob("T1", "C1", NoList, NoList, Absent, "al", Absent)

\* another posting, with posted_at and a search link
JobC == [RawJob("T2", "C1", NoList, ListOf(<<Absent>>), "sl", Absent, "l")
           EXCEPT !.detected_extensions =
               [kind |-> "dict", posted_at |-> "3 days ago", schedule_type |-> Absent]]

\* an element of jobs_results that is no dict (a malformed response)
JobNotDict == [RawJob(Absent, Absent, NoList, NoList, Absent, Absent, Absent)
                 EXCEPT !.is_dict = FALSE]

SerpJobs == {JobA, JobB, JobC, JobNotDict}

RequestRaises == [kind |-> "raise", jobs |-> <<>>]

ErrorPayload == [kind |-> "error", jobs |-> <<>>]

\* what one GoogleSearch(params).get_dict() can produce: an exception, an
\* "error" payload, or jobs_results, a list of different raw listings
Outcomes ==
    {RequestRaises, ErrorPayload}
        \cup {[kind |-> "ok", jobs |-> s] : s \in DistinctSeqsUpTo(SerpJobs, MaxResults)}

Profile(p, l, alt, kw) ==
    [primary_role |-> p, career_level |-> l,
     alternative_roles |-> alt, recommended_keywords |-> kw]

SerpProfiles ==
    {Profile(<<"D">>, <<>>, <<>>, <<>>),
     Profile(<<>>, <<>>, <<<<"M">>>>, <<>>),
     Profile(<<"D">>, <<"S">>, <<>>, <<<<"p">>>>),
     Profile(<<"D">>, <<>>, <<<<"D">>>>, <<>>)}

Locations == {<<" ", "R", "e", "m", "o", "t", "e">>, <<"N", "Y">>}

\* st.secrets: the import or the lookup raises, the key is absent, or it has a value
SecretsRaises == "<raises>"

SecretsStates == {SecretsRaises, Absent, "", "key"}

\* os.getenv("SERPAPI_KEY"): None when the variable is unset
EnvValues == {None, "", "key"}

\* _get_serpapi_key: the secret if st.secrets has one, otherwise the environment
GetSerpapiKey(secret, env) ==
    IF secret = SecretsRaises THEN env
    ELSE IF secret = Absent THEN env
    ELSE secret

ApiKeys == {GetSerpapiKey(s, e) : s \in SecretsStates, e \in EnvValues}

(***************************************************************************)
(* fetch_google_jobs_serpapi                                               *)
(***************************************************************************)
NoJobicy ==
    /\ today = 0 /\ api_data = <<>> /\ feeds = <<>> /\ search_terms = <<>>
    /\ fi = 0 /\ matched = <<>>

NoSerp ==
    /\ api_key = None /\ location = <<>> /\ queries = <<>> /\ qi = 0
    /\ all_jobs = <<>> /\ requests = <<>> /\ responses = <<>>

NoMapping == job = None /\ jd = None

NoDetection == response = <<>>

Init ==
    /\ pc = "start"
    /\ roles \in SerpProfiles
    /\ limit \in 0..MaxLimit
    /\ api_key \in ApiKeys
    /\ location \in Locations
    /\ queries = <<>> /\ qi = 0 /\ ri = 0
    /\ all_jobs = <<>> /\ requests = <<>> /\ responses = <<>>
    /\ result = <<>>
    /\ NoJobicy /\ NoMapping /\ NoDetection

jobicyVars == <<today, api_data, feeds, search_terms, fi, matched>>

inputVars == <<roles, limit, api_key, location, response>>

AfterExceptionPropagates == "raised"

\* except Exception: continue
AfterException == "loop"

LimitReachedNever(acc, lim) == FALSE

\* if len(all_jobs) >= limit: break
LimitReached(acc, lim) == Len(acc) >= lim

NoCredentialOnlyNone(key) == key = None

\* if not api_key
NoCredential(key) == ~Truthy(key)

\* if not api_key: return [];  otherwise the query list is built
Enter ==
    /\ pc = "start"
    /\ IF NoCredential(api_key)
       THEN /\ pc' = "done"
            /\ result' = <<>>
            /\ UNCHANGED <<queries, qi>>
       ELSE /\ pc' = "loop"
            /\ queries' = IteratedQueries(roles)
            /\ qi' = 1
            /\ UNCHANGED result
    /\ UNCHANGED <<inputVars, ri, all_jobs, requests, responses, jobicyVars, job, jd>>

\* the for loop over the queries ends, or breaks on the limit
LoopExit ==
    /\ pc = "loop"
    /\ qi > Len(queries) \/ LimitReached(all_jobs, limit)
    /\ pc' = "return"
    /\ UNCHANGED <<inputVars, queries, qi, ri, all_jobs, requests, responses,
                   jobicyVars, job, jd, result>>

\* res = GoogleSearch(params).get_dict();  if "error" in res: continue
Request ==
    /\ pc = "loop"
    /\ qi <= Len(queries)
    /\ ~LimitReached(all_jobs, limit)
    /\ requests' = Append(requests, Params(queries[qi]))
    /\ \E r \in Outcomes :
        /\ responses' = Append(responses, r)
        /\ IF r.kind = "raise"
           THEN pc' = AfterException /\ qi' = qi + 1 /\ UNCHANGED ri
           ELSE IF r.kind = "error"
           THEN pc' = "loop" /\ qi' = qi + 1 /\ UNCHANGED ri
           ELSE pc' = "jobs" /\ ri' = 1 /\ UNCHANGED qi
    /\ UNCHANGED <<inputVars, queries, all_jobs, jobicyVars, job, jd, result>>

\* the response being iterated
Res == responses[qi].jobs

\* the for loop over jobs_results ends, or breaks on the limit
JobsExit ==
    /\ pc = "jobs"
    /\ ri > Len(Res) \/ LimitReached(all_jobs, limit)
    /\ pc' = "loop"
    /\ qi' = qi + 1
    /\ UNCHANGED <<inputVars, queries, ri, all_jobs, requests, responses,
                   jobicyVars, job, jd, result>>

\* one raw listing: map it, append it unless a duplicate; an exception ends the query
MapStep ==
    /\ pc = "jobs"
    /\ ri <= Len(Res)
    /\ ~LimitReached(all_jobs, limit)
    /\ LET m == MapJob(Res[ri], queries[qi]) IN
        IF m.raised
        THEN pc' = AfterException /\ qi' = qi + 1 /\ UNCHANGED <<ri, all_jobs>>
        ELSE /\ all_jobs' = IF IsDuplicate(m.jd, all_jobs)
                            THEN all_jobs
                            ELSE Append(all_jobs, m.jd)
             /\ ri' = ri + 1
             /\ UNCHANGED <<pc, qi>>
    /\ UNCHANGED <<inputVars, queries, requests, responses, jobicyVars, job, jd,
                   result>>

\* return all_jobs[:limit]
Return ==
    /\ pc = "return"
    /\ result' = Truncate(all_jobs, limit)
    /\ pc' = "done"
    /\ UNCHANGED <<inputVars, queries, qi, ri, all_jobs, requests, responses,
                   jobicyVars, job, jd>>

Next == Enter \/ LoopExit \/ Request \/ JobsExit \/ MapStep \/ Return

Spec == Init /\ [][Next]_vars

(***************************************************************************)
(* The query list alone, over every small RoleProfile                      *)
(***************************************************************************)
MaxList == 3

QueryPrimaries == {<<>>, Space, <<"D">>}

QueryLevels == {<<>>, Space, <<"S", "r">>}

QueryItems == {<<>>, Space, <<"M">>}

DataScientist == <<"D","a","t","a"," ","S","c","i","e","n","t","i","s","t">>

ExampleProfile ==
    Profile(DataScientist, <<"S","e","n","i","o","r">>,
            << <<"M","L"," ","E","n","g","i","n","e","e","r">>,
               <<"A","n","a","l","y","s","t">> >>,
            << <<"p","y","t","h","o","n">>,
               <<"s","t","a","t","i","s","t","i","c","s">> >>)

QueryProfiles ==
    {ExampleProfile} \cup
    {Profile(p, l, alt, kw) :
        p \in QueryPrimaries, l \in QueryLevels,
        alt \in SeqsUpTo(QueryItems, MaxList), kw \in SeqsUpTo(QueryItems, MaxList)}

InitQuery ==
    /\ pc = "build"
    /\ roles \in QueryProfiles
    /\ limit = 0 /\ ri = 0 /\ result = <<>>
    /\ NoSerp /\ NoJobicy /\ NoMapping /\ NoDetection

\* lines 61-71: the list is built, and filter(None, queries) is what the loop iterates
BuildQueries ==
    /\ pc = "build"
    /\ queries' = IteratedQueries(roles)
    /\ pc' = "iterate"
    /\ UNCHANGED <<inputVars, qi, ri, all_jobs, requests, responses, jobicyVars,
                   job, jd, result>>

NextQuery == BuildQueries

SpecQuery == InitQuery /\ [][NextQuery]_vars

(***************************************************************************)
(* The mapping of one raw listing, over every shape of its link fields     *)
(***************************************************************************)
MaxLinks == 2

LinkLists(u) ==
    {NoList, NullList} \cup {ListOf(es) : es \in SeqsUpTo({Absent, "", u}, MaxLinks)}

LinkValues(u) == {Absent, None, "", u}

LinkShapes ==
    {RawJob("T1", "C1", rl, ao, sl, al, l) :
        rl \in LinkLists("rl"), ao \in LinkLists("ao"),
        sl \in LinkValues("sl"), al \in LinkValues("al"), l \in LinkValues("l")}

InitLink ==
    /\ pc = "map"
    /\ job \in LinkShapes
    /\ jd = None
    /\ roles = Profile(<<"D">>, <<>>, <<>>, <<>>)
    /\ limit = 0 /\ ri = 0 /\ result = <<>>
    /\ NoSerp /\ NoJobicy /\ NoDetection

\* lines 93-111 on one raw listing
MapRaw ==
    /\ pc = "map"
    /\ jd' = MapJob(job, roles.primary_role)
    /\ pc' = "mapped"
    /\ UNCHANGED <<inputVars, queries, qi, ri, all_jobs, requests, responses,
                   jobicyVars, job, result>>

NextLink == MapRaw

SpecLink == InitLink /\ [][NextLink]_vars

(***************************************************************************)
(* Properties of the query list (SpecQuery)                                *)
(***************************************************************************)
MaxQueries == 2 + AltSliceLen + KeywordSliceLen

\* C1: the list of queries the loop iterates holds no empty string and no
\* blank (whitespace-only) string, and has at most 6 elements.
NoEmptyOrBlankQuery ==
    pc = "iterate" =>
        /\ Len(queries) <= MaxQueries
        /\ \A i \in 1..Len(queries) : queries[i] # <<>> /\ ~IsBlank(queries[i])

\* the k-th candidate of the claimed order; a missing list entry counts as empty
Candidate(r, k) ==
    CASE k = 1 -> r.primary_role
      [] k = 2 -> r.primary_role \o Space \o Lower(r.career_level)
      [] k = 3 -> IF Len(r.alternative_roles) >= 1 THEN r.alternative_roles[1] ELSE <<>>
      [] k = 4 -> IF Len(r.alternative_roles) >= 2 THEN r.alternative_roles[2] ELSE <<>>
      [] k = 5 -> IF Len(r.recommended_keywords) >= 1
                  THEN r.recommended_keywords[1] ELSE <<>>
      [] k = 6 -> IF Len(r.recommended_keywords) >= 2
                  THEN r.recommended_keywords[2] ELSE <<>>

KeptCandidates(r) == {k \in 1..6 : Candidate(r, k) # <<>>}

\* C10: the iterated queries are exactly primary_role, primary_role + " " +
\* lower-cased career_level, the first two alternative_roles, the first two
\* recommended_keywords, with the empty ones removed and the order kept; the
\* Data Scientist example gives the six queries of the specification.
QueryOrderExact ==
    pc = "iterate" =>
        /\ Len(queries) = Cardinality(KeptCandidates(roles))
        /\ \A k \in KeptCandidates(roles) :
               queries[Cardinality({j \in KeptCandidates(roles) : j <= k})]
                   = Candidate(roles, k)
        /\ roles = ExampleProfile =>
               queries = << DataScientist,
                            DataScientist \o <<" ","s","e","n","i","o","r">>,
                            <<"M","L"," ","E","n","g","i","n","e","e","r">>,
                            <<"A","n","a","l","y","s","t">>,
                            <<"p","y","t","h","o","n">>,
                            <<"s","t","a","t","i","s","t","i","c","s">> >>

\* the example profile has been turned into its six queries
ExampleQueriesBuilt ==
    pc = "iterate" /\ roles = ExampleProfile /\ Len(queries) = 6

(***************************************************************************)
(* Properties of the link fallback (SpecLink)                              *)
(***************************************************************************)
\* the link of the first element of a list field, as the claim reads it
FirstElementLink(f) ==
    IF f.kind = "list" /\ Len(f.elems) > 0 THEN f.elems[1] ELSE Absent

LinkCandidates(j) ==
    << FirstElementLink(j.related_links), FirstElementLink(j.apply_options),
       j.search_link, j.apply_link, j.link >>

NonEmptyLink(v) == v \notin {Absent, None, ""}

\* C5: the normalized link is the first non-empty candidate in the order
\* related_links[0].link, apply_options[0].link, search_link, apply_link,
\* link, for every shape of the raw record, and the listing is emitted.
LinkIsFirstNonEmptyCandidate ==
    pc = "mapped" =>
        /\ ~jd.raised
        /\ \A k \in 1..5 :
               ( /\ NonEmptyLink(LinkCandidates(job)[k])
                 /\ \A i \in 1..(k - 1) : ~NonEmptyLink(LinkCandidates(job)[i]) )
               => jd.jd.link = LinkCandidates(job)[k]

(***************************************************************************)
(* enhanced_jobicy_search                                                  *)
(* Dates are day numbers; a published date that does not parse is          *)
(* [ok |-> FALSE], one that parses is its day.                             *)
(***************************************************************************)
RecencyDays == 30

Today == 100

MaxJobs == 2

MaxEntries == 2

RssFeeds == <<"weworkremotely.com/remote-programming-jobs.rss", "himalayas.app/jobs.rss">>

Date(d) == [ok |-> TRUE, day |-> d]

BadDate == [ok |-> FALSE, day |-> 0]

Text(t) == [has |-> TRUE, text |-> t]

NoText == [has |-> FALSE, text |-> <<>>]

ApiJob(t, d, c, p, u) ==
    [title |-> t, description |-> d, company_name |-> c, published_at |-> p, url |-> u]

\* published exactly 30 days ago; title and description both hold a term
ApiJobAtCutoff == ApiJob(<<"D","s">>, Text(<<"p">>), "Acme", Date(Today - 30), "a1")

\* published 31 days ago
ApiJobTooOld == ApiJob(<<"D","s">>, Text(<<"p">>), "Acme", Date(Today - 31), "a2")

\* "D" ends the title and "s" starts the description; no company_name
ApiJobSplit == ApiJob(<<"D">>, Text(<<"s">>), Absent, Date(Today - 10), "a3")

\* same title and company as ApiJobAtCutoff, another posting, no description
ApiJobTwin == ApiJob(<<"D","s">>, NoText, "Acme", Date(Today - 10), "a4")

\* published_at is not an ISO date
ApiJobBadDate == ApiJob(<<"D","s">>, Text(<<"p">>), "Acme", BadDate, "a5")

ApiJobs == {ApiJobAtCutoff, ApiJobTooOld, ApiJobSplit, ApiJobTwin, ApiJobBadDate}

\* httpx.get(...).json().get("jobs", []) raises, or gives the list of
\* postings, each under its own url
ApiOutcomes ==
    {[kind |-> "raise", jobs |-> <<>>]}
        \cup {[kind |-> "ok", jobs |-> s] : s \in DistinctSeqsUpTo(ApiJobs, MaxJobs)}

RssEntry(t, p, l) == [title |-> t, published |-> p, link |-> l]

RssEntryAtCutoff == RssEntry(<<"D","s">>, Date(Today - 30), "r1")

RssEntryTooOld == RssEntry(<<"x","P">>, Date(Today - 31), "r2")

\* published is missing or not in the RSS date format
RssEntryBadDate == RssEntry(<<"D","s">>, BadDate, "r3")

RssEntries == {RssEntryAtCutoff, RssEntryTooOld, RssEntryBadDate}

\* feed.entries of feedparser.parse(rss); a feed that cannot be fetched or
\* parsed comes back with no entries
FeedOutcomes == DistinctSeqsUpTo(RssEntries, MaxEntries)

JobicyProfiles ==
    {Profile(<<"D"," ","s">>, <<>>, <<>>, <<<<"P">>>>),
     Profile(<<"D","S">>, <<>>, <<>>, <<<<"p">>>>)}

InitJobicy ==
    /\ pc = "j_start"
    /\ roles \in JobicyProfiles
    /\ limit \in 0..MaxLimit
    /\ today = Today
    /\ api_data \in ApiOutcomes
    /\ feeds \in [1..Len(RssFeeds) -> FeedOutcomes]
    /\ search_terms = <<>> /\ fi = 0 /\ ri = 0 /\ matched = <<>>
    /\ result = <<>>
    /\ NoSerp /\ NoMapping /\ NoDetection

serpVars == <<api_key, location, queries, qi, all_jobs, requests, responses>>

worldVars == <<roles, limit, today, api_data, feeds, response>>

\* search_terms = [primary_role] + (recommended_keywords or [])
SearchTerms(r) == <<r.primary_role>> \o r.recommended_keywords

\* datetime.date.today() - datetime.timedelta(days=30)
Cutoff == today - RecencyDays

TooOldAtCutoff(pub, cutoff) == pub <= cutoff

\* if pub < cutoff: continue
TooOld(pub, cutoff) == pub < cutoff

\* job.get("description", "")
Description(j) == IF j.description.has THEN j.description.text ELSE <<>>

\* (job.get("title", "") + " " + job.get("description", "")).lower()
Content(j) == Lower(j.title \o Space \o Description(j))

\* job.get("company_name", "Unknown")
Company(j) == IF j.company_name = Absent THEN "Unknown" ELSE j.company_name

RECURSIVE FirstMatchFrom(_, _, _)
FirstMatchFrom(terms, text, k) ==
    IF k > Len(terms) THEN 0
    ELSE IF IsSubstr(Lower(terms[k]), text) THEN k
    ELSE FirstMatchFrom(terms, text, k + 1)

\* for term in search_terms: if term.lower() in text: ...; break
\* the index of the term that is credited, 0 if none matches
FirstMatch(terms, text) == FirstMatchFrom(terms, text, 1)

AfterApiException == "rss"

AfterRssException == "j_return"

\* search_terms is built and the Jobicy endpoint is fetched; a failure of the
\* fetch is caught by the first try block
JobicyEnter ==
    /\ pc = "j_start"
    /\ search_terms' = SearchTerms(roles)
    /\ IF api_data.kind = "raise"
       THEN pc' = AfterApiException /\ fi' = 1 /\ UNCHANGED ri
       ELSE pc' = "api" /\ ri' = 1 /\ UNCHANGED fi
    /\ UNCHANGED <<worldVars, serpVars, matched, job, jd, result>>

\* for job in data: ends
ApiExit ==
    /\ pc = "api"
    /\ ri > Len(api_data.jobs)
    /\ pc' = "rss"
    /\ fi' = 1
    /\ UNCHANGED <<worldVars, serpVars, search_terms, ri, matched, job, jd, result>>

\* one job of the Jobicy answer; a date that does not parse leaves the try block
ApiStep ==
    /\ pc = "api"
    /\ ri <= Len(api_data.jobs)
    /\ LET j == api_data.jobs[ri]
           m == FirstMatch(search_terms, Content(j))
       IN  IF ~j.published_at.ok
           THEN pc' = AfterApiException /\ fi' = 1 /\ UNCHANGED <<ri, matched>>
           ELSE /\ matched' =
                      IF ~TooOld(j.published_at.day, Cutoff) /\ m > 0
                      THEN Append(matched,
                                  [url          |-> j.url,
                                   title        |-> j.title,
                                   company      |-> Company(j),
                                   match_reason |-> MatchReason(search_terms[m])])
                      ELSE matched
                /\ ri' = ri + 1
                /\ UNCHANGED <<pc, fi>>
    /\ UNCHANGED <<worldVars, serpVars, search_terms, job, jd, result>>

\* for rss in _RSS_FEEDS: ends
RssExit ==
    /\ pc = "rss"
    /\ fi > Len(RssFeeds)
    /\ pc' = "j_return"
    /\ UNCHANGED <<worldVars, serpVars, search_terms, fi, ri, matched, job, jd, result>>

\* feed = feedparser.parse(rss)
RssParse ==
    /\ pc = "rss"
    /\ fi <= Len(RssFeeds)
    /\ pc' = "entries"
    /\ ri' = 1
    /\ UNCHANGED <<worldVars, serpVars, search_terms, fi, matched, job, jd, result>>

\* for entry in feed.entries: ends
EntriesExit ==
    /\ pc = "entries"
    /\ ri > Len(feeds[fi])
    /\ pc' = "rss"
    /\ fi' = fi + 1
    /\ UNCHANGED <<worldVars, serpVars, search_terms, ri, matched, job, jd, result>>

\* one RSS entry; strptime on a missing or malformed published leaves the try block
EntryStep ==
    /\ pc = "entries"
    /\ ri <= Len(feeds[fi])
    /\ LET e == feeds[fi][ri]
           m == FirstMatch(search_terms, Lower(e.title))
       IN  IF ~e.published.ok
           THEN pc' = AfterRssException /\ UNCHANGED <<ri, matched>>
           ELSE /\ matched' =
                      IF ~TooOld(e.published.day, Cutoff) /\ m > 0
                      THEN Append(matched,
                                  [url          |-> e.link,
                                   title        |-> e.title,
                                   company      |-> "Remote",
                                   match_reason |-> MatchReason(search_terms[m])])
                      ELSE matched
                /\ ri' = ri + 1
                /\ UNCHANGED pc
    /\ UNCHANGED <<worldVars, serpVars, search_terms, fi, job, jd, result>>

\* return matched[:limit]
JobicyReturn ==
    /\ pc = "j_return"
    /\ result' = Truncate(matched, limit)
    /\ pc' = "j_done"
    /\ UNCHANGED <<worldVars, serpVars, search_terms, fi, ri, matched, job, jd>>

NextJobicy ==
    \/ JobicyEnter \/ ApiExit \/ ApiStep \/ RssExit \/ RssParse
    \/ EntriesExit \/ EntryStep \/ JobicyReturn

SpecJobicy == InitJobicy /\ [][NextJobicy]_vars

\* either adapter, as the caller runs them on one RoleProfile
InitAdapters == Init \/ InitJobicy

NextAdapters == Next \/ NextJobicy

SpecAdapters == InitAdapters /\ [][NextAdapters]_vars

(***************************************************************************)
(* Properties of fetch_google_jobs_serpapi (Spec)                          *)
(***************************************************************************)
\* the (title, company) pair a raw listing stands for
RawPair(j) == <<Get(j.title), Get(j.company_name)>>

ListedPair(d) == <<d.title, d.company>>

NoTwoSamePair(list) ==
    \A a, b \in 1..Len(list) : a # b => ListedPair(list[a]) # ListedPair(list[b])

\* positions of the raw listings with pair p in the answer to query i
Returned(i, p) ==
    IF responses[i].kind = "ok"
    THEN {r \in 1..Len(responses[i].jobs) :
             responses[i].jobs[r].is_dict /\ RawPair(responses[i].jobs[r]) = p}
    ELSE {}

\* those of them the loop gets to: no raw listing up to them raises in the mapping
Reached(i, p) ==
    {r \in Returned(i, p) :
        \A k \in 1..r : ~MapJob(responses[i].jobs[k], queries[i]).raised}

Least(S) == CHOOSE x \in S : \A y \in S : x <= y

\* the listing that query i's raw listing r maps to
Mapped(i, r) == MapJob(responses[i].jobs[r], queries[i]).jd

\* C2 as stated: no two listings of the output share (title, company), and
\* the one kept for a pair is the first raw listing with that pair in the
\* earliest query whose response returned it.
KeptIsFirstReturned ==
    pc = "done" =>
        /\ NoTwoSamePair(result)
        /\ \A k \in 1..Len(result) :
             LET p == ListedPair(result[k])
                 i == Least({q \in 1..Len(responses) : Returned(q, p) # {}})
             IN  result[k] = Mapped(i, Least(Returned(i, p)))

\* C2 amended: no two listings of the output share (title, company), and the
\* one kept for a pair is the first raw listing with that pair that the loop
\* reached, a raw listing being reached when no raw listing before it in the
\* same response raised while being mapped.
KeptIsFirstReached ==
    pc = "done" =>
        /\ NoTwoSamePair(result)
        /\ \A k \in 1..Len(result) :
             LET p == ListedPair(result[k])
                 i == Least({q \in 1..Len(responses) : Reached(q, p) # {}})
             IN  result[k] = Mapped(i, Least(Reached(i, p)))

\* the same posting came back for two queries and differently linked within
\* one answer; the output holds it once
DuplicateDropped ==
    /\ pc = "done"
    /\ Len(responses) >= 2
    /\ responses[1] = [kind |-> "ok", jobs |-> <<JobB, JobA>>]
    /\ responses[2] = [kind |-> "ok", jobs |-> <<JobA, JobC>>]
    /\ Len(result) = 2
    /\ result[1].link = "al"

\* query i failed: the request raised, the answer carried "error", or a raw
\* listing raised in the mapping
Failing(i) ==
    \/ responses[i].kind \in {"raise", "error"}
    \/ \E r \in 1..Len(responses[i].jobs) :
           MapJob(responses[i].jobs[r], queries[i]).raised

\* pairs of the raw listings of answer i that precede its first raising one
PairsBeforeFailure(i) ==
    IF responses[i].kind = "ok"
    THEN {RawPair(responses[i].jobs[r]) :
             r \in {x \in 1..Len(responses[i].jobs) :
                       \A k \in 1..x : ~MapJob(responses[i].jobs[k], queries[i]).raised}}
    ELSE {}

Credited(list, q) == {k \in 1..Len(list) : list[k].match_reason = MatchReason(q)}

DistinctQueries == \A a, b \in 1..Len(queries) : a # b => queries[a] # queries[b]

\* C6: whatever each query produces (an answer, an "error" payload, an
\* exception in the request or in the mapping of a raw listing), the function
\* returns without raising, a failing query adds nothing after its failure,
\* and each later query is requested while the count is below the limit,
\* its listings being in the result.
FailuresAreIsolated ==
    /\ pc # "raised"
    /\ pc = "done" /\ Truthy(api_key) =>
        /\ Len(requests) = Len(responses)
        /\ Len(all_jobs) < limit => Len(requests) = Len(queries)
        /\ \A i \in 1..Len(requests) : requests[i].q = queries[i] \o Space \o RemoteWord
        /\ \A i \in 1..Len(responses) :
             /\ DistinctQueries /\ Failing(i) =>
                  \A k \in Credited(result, queries[i]) :
                      ListedPair(result[k]) \in PairsBeforeFailure(i)
             /\ \A p \in PairsBeforeFailure(i) :
                  \/ \E k \in 1..Len(result) : ListedPair(result[k]) = p
                  \/ Len(result) >= limit

\* the first request raised, the second answer broke in the mapping, and the
\* third query was still requested and its listing returned
LaterQueryServed ==
    /\ pc = "done"
    /\ Len(responses) = 3
    /\ responses[1].kind = "raise"
    /\ responses[2] = [kind |-> "ok", jobs |-> <<JobNotDict, JobA>>]
    /\ responses[3] = [kind |-> "ok", jobs |-> <<JobC>>]
    /\ Len(result) = 1
    /\ result[1].title = "T2"

(***************************************************************************)
(* Properties of enhanced_jobicy_search (SpecJobicy)                       *)
(***************************************************************************)
\* whole days between today and a parsed published date
Age(p) == today - p.day

\* term t is a case-insensitive substring of text
TermIn(t, text) == IsSubstr(Lower(t), Lower(text))

Terms == SearchTerms(roles)

\* eligibility by keyword as the specification words it
ApiEligible(j) ==
    \E k \in 1..Len(Terms) : TermIn(Terms[k], j.title) \/ TermIn(Terms[k], Description(j))

RssEligible(e) == \E k \in 1..Len(Terms) : TermIn(Terms[k], e.title)

\* the first term, in priority order, that makes the listing eligible
ApiFirstTerm(j) ==
    Terms[Least({k \in 1..Len(Terms) :
                    TermIn(Terms[k], j.title) \/ TermIn(Terms[k], Description(j))})]

RssFirstTerm(e) == Terms[Least({k \in 1..Len(Terms) : TermIn(Terms[k], e.title)})]

ApiList == api_data.jobs

\* the jobs of the Jobicy answer the loop gets to
ApiReached ==
    {i \in 1..Len(ApiList) : \A k \in 1..i : ApiList[k].published_at.ok}

FeedClean(f) == \A k \in 1..Len(feeds[f]) : feeds[f][k].published.ok

\* the entries of feed f the loop gets to
RssReached(f) ==
    IF \A g \in 1..(f - 1) : FeedClean(g)
    THEN {i \in 1..Len(feeds[f]) :
             \A k \in 1..i : feeds[f][k].published.ok}
    ELSE {}

Listed(list, u) == {k \in 1..Len(list) : list[k].url = u}

Cut == Len(result) >= limit

\* C3: no two listings of the output share (title, company), wherever the
\* two come from.
JobicyNoTwoSamePair ==
    pc = "j_done" =>
        \A a, b \in 1..Len(result) :
            a # b => ~(result[a].title = result[b].title
                         /\ result[a].company = result[b].company)

\* C4: every RSS entry that parses, is recent and matches a term is in the
\* result (up to the limit), whatever other entries or the other feed do.
RssEntriesIsolated ==
    pc = "j_done" =>
        \A f \in 1..Len(RssFeeds) : \A i \in 1..Len(feeds[f]) :
            LET e == feeds[f][i] IN
                (e.published.ok /\ Age(e.published) <= RecencyDays /\ RssEligible(e))
                    => (Listed(result, e.link) # {} \/ Cut)

\* C8: a listing is in the output exactly if some term is a case-insensitive
\* substring of its title or description (Jobicy) or of its title (RSS), at
\* most once, and credited to the first such term in priority order.
CreditedToFirstMatchingTerm ==
    pc = "j_done" =>
        /\ \A i \in ApiReached :
             LET j == ApiList[i] IN
               /\ Listed(result, j.url) # {} => ApiEligible(j)
               /\ \A k \in Listed(result, j.url) :
                      result[k].match_reason = MatchReason(ApiFirstTerm(j))
               /\ ApiEligible(j) /\ Age(j.published_at) <= RecencyDays
                      => (Listed(result, j.url) # {} \/ Cut)
               /\ Cardinality(Listed(result, j.url))
                      <= Cardinality({x \in 1..Len(ApiList) : ApiList[x].url = j.url})
        /\ \A f \in 1..Len(RssFeeds) : \A i \in RssReached(f) :
             LET e == feeds[f][i] IN
               /\ Listed(result, e.link) # {} => RssEligible(e)
               /\ \A k \in Listed(result, e.link) :
                      result[k].match_reason = MatchReason(RssFirstTerm(e))
               /\ RssEligible(e) /\ Age(e.published) <= RecencyDays
                      => (Listed(result, e.link) # {} \/ Cut)

\* C9: with d the whole days from the published date to today, a listing
\* that matches a term is in the output when d <= 30 (up to the limit) and
\* is not when d >= 31, for the Jobicy answer and for the RSS feeds.
RecencyBoundary ==
    pc = "j_done" =>
        /\ \A i \in ApiReached :
             LET j == ApiList[i] IN
               /\ Age(j.published_at) >= RecencyDays + 1 => Listed(result, j.url) = {}
               /\ Age(j.published_at) <= RecencyDays /\ ApiEligible(j)
                      => (Listed(result, j.url) # {} \/ Cut)
        /\ \A f \in 1..Len(RssFeeds) : \A i \in RssReached(f) :
             LET e == feeds[f][i] IN
               /\ Age(e.published) >= RecencyDays + 1 => Listed(result, e.link) = {}
               /\ Age(e.published) <= RecencyDays /\ RssEligible(e)
                      => (Listed(result, e.link) # {} \/ Cut)

\* a job 30 days old and one 31 days old came back, and an entry 30 days old
\* and one 31 days old; the two at 30 days are the output
BoundaryListingsKept ==
    /\ pc = "j_done"
    /\ api_data = [kind |-> "ok", jobs |-> <<ApiJobTooOld, ApiJobAtCutoff>>]
    /\ feeds[1] = <<RssEntryTooOld, RssEntryAtCutoff>>
    /\ Len(result) = 2
    /\ result[1].url = "a1"
    /\ result[2].url = "r1"

(***************************************************************************)
(* Both adapters (SpecAdapters)                                            *)
(***************************************************************************)
\* C7: for every limit >= 0 and every combination of upstream answers, the
\* list either adapter returns has at most limit elements.
ResultWithinLimit ==
    pc \in {"done", "j_done"} => Len(result) <= limit

\* enhanced_jobicy_search had matched more than the limit and returned
MoreMatchedThanLimit ==
    pc = "j_done" /\ Len(matched) > limit /\ Len(result) = limit

(***************************************************************************)
(* fetch_google_jobs_serpapi without a credential                          *)
(***************************************************************************)
\* C12: when the key lookup returned None or the empty string, the call ends
\* without raising, returns the empty list and has issued no search request,
\* whatever the RoleProfile, the location and the limit
NoCredentialNoRequests ==
    (api_key = None \/ api_key = "") =>
        /\ pc \in {"start", "done"}
        /\ requests = <<>>
        /\ responses = <<>>
        /\ result = <<>>
        /\ queries = <<>>

\* a call has returned although the lookup gave the empty string, with a limit
\* that asks for listings
ReturnedWithoutCredential ==
    /\ pc = "done"
    /\ api_key = ""
    /\ limit > 0
    /\ result = <<>>
    /\ requests = <<>>

(***************************************************************************)
(* fetch_google_jobs_serpapi: order of the requests and of the output      *)
(***************************************************************************)
\* the query whose answer brought listing k of the list, and the place the
\* listing had in that answer
Origin(list, k) ==
    Least({q \in 1..Len(responses) : Reached(q, ListedPair(list[k])) # {}})

Place(list, k) == Least(Reached(Origin(list, k), ListedPair(list[k])))

\* the listings of the list are in the order of their queries, and those of
\* one query in the order of its answer; each is credited to its query
InQueryOrder(list) ==
    \A a, b \in 1..Len(list) :
        /\ list[a].match_reason = MatchReason(queries[Origin(list, a)])
        /\ a < b =>
             \/ Origin(list, a) < Origin(list, b)
             \/ /\ Origin(list, a) = Origin(list, b)
                /\ Place(list, a) < Place(list, b)

\* the requests made so far are those of the first queries, in query order,
\* each answered before the next is made
RequestsInQueryOrder ==
    /\ Len(requests) = Len(responses)
    /\ Len(requests) <= Len(queries)
    /\ \A i \in 1..Len(requests) : requests[i].q = queries[i] \o Space \o RemoteWord

\* a step that issues a request issues one, and only below the limit
OneRequestBelowLimit ==
    requests' # requests =>
        /\ Len(all_jobs) < limit
        /\ Len(requests') = Len(requests) + 1
        /\ SubSeq(requests', 1, Len(requests)) = requests

\* C13: the returned list is in query-priority order (a listing's credited
\* query was issued no later than that of any listing after it, and listings
\* of one query keep the order of the upstream answer); requests are issued
\* one at a time in query order, and none once the count reached the limit
QueryPriorityOrder ==
    /\ [](RequestsInQueryOrder /\ (pc = "done" => InQueryOrder(result)))
    /\ [][OneRequestBelowLimit]_vars

\* two queries filled the limit with one listing each and the third query was
\* never requested
LimitStoppedRequests ==
    /\ pc = "done"
    /\ limit = 2
    /\ Len(queries) = 3
    /\ Len(requests) = 2
    /\ Len(result) = 2
    /\ result[1].match_reason = MatchReason(queries[1])
    /\ result[2].match_reason = MatchReason(queries[2])

(***************************************************************************)
(* detect_suitable_job_roles (src/app.py)                                  *)
(***************************************************************************)
PrimaryRoleLabel ==
    <<"P", "R", "I", "M", "A", "R", "Y", " ", "R", "O", "L", "E", ":">>

AlternativeRolesLabel ==
    <<"A", "L", "T", "E", "R", "N", "A", "T", "I", "V", "E", " ", "R",
      "O", "L", "E", "S", ":">>

CareerLevelLabel ==
    <<"C", "A", "R", "E", "E", "R", " ", "L", "E", "V", "E", "L", ":">>

KeyStrengthsLabel ==
    <<"K", "E", "Y", " ", "S", "T", "R", "E", "N", "G", "T", "H", "S",
      ":">>

RecommendedKeywordsLabel ==
    <<"R", "E", "C", "O", "M", "M", "E", "N", "D", "E", "D", " ", "K",
      "E", "Y", "W", "O", "R", "D", "S", ":">>

DefaultPrimaryRole ==
    <<"S", "o", "f", "t", "w", "a", "r", "e", " ", "E", "n", "g", "i",
      "n", "e", "e", "r">>

DefaultAlternativeRoles ==
    << <<"D", "e", "v", "e", "l", "o", "p", "e", "r">>,
       <<"P", "r", "o", "g", "r", "a", "m", "m", "e", "r">>,
       <<"E", "n", "g", "i", "n", "e", "e", "r">> >>

DefaultCareerLevel ==
    <<"M", "i", "d", " ", "L", "e", "v", "e", "l">>

DefaultKeyStrengths ==
    << <<"P", "r", "o", "g", "r", "a", "m", "m", "i", "n", "g">>,
       <<"P", "r", "o", "b", "l", "e", "m", " ", "S", "o", "l", "v", "i",
         "n", "g">>,
       <<"T", "e", "c", "h", "n", "o", "l", "o", "g", "y">> >>

DefaultRecommendedKeywords ==
    << <<"s", "o", "f", "t", "w", "a", "r", "e", " ", "e", "n", "g", "i",
         "n", "e", "e", "r">>,
       <<"d", "e", "v", "e", "l", "o", "p", "e", "r">>,
       <<"p", "r", "o", "g", "r", "a", "m", "m", "i", "n", "g">> >>

\* parsed_roles as first assigned
DefaultRoles ==
    [primary_role |-> DefaultPrimaryRole,
     alternative_roles |-> DefaultAlternativeRoles,
     career_level |-> DefaultCareerLevel,
     key_strengths |-> DefaultKeyStrengths,
     recommended_keywords |-> DefaultRecommendedKeywords]

\* str.startswith(prefix)
StartsWith(s, prefix) ==
    Len(s) >= Len(prefix) /\ SubSeq(s, 1, Len(prefix)) = prefix

\* str.replace(old, ''): every occurrence of old is taken out, left to right
RECURSIVE Remove(_, _)
Remove(s, old) ==
    IF Len(s) = 0 THEN <<>>
    ELSE IF StartsWith(s, old)
         THEN Remove(SubSeq(s, Len(old) + 1, Len(s)), old)
         ELSE <<Head(s)>> \o Remove(Tail(s), old)

\* str.split(sep) for a one-character separator
RECURSIVE Split(_, _)
Split(s, sep) ==
    IF \E i \in 1..Len(s) : s[i] = sep
    THEN LET i == CHOOSE x \in 1..Len(s) :
                      s[x] = sep /\ \A y \in 1..(x - 1) : s[y] # sep
         IN  <<SubSeq(s, 1, i - 1)>> \o Split(SubSeq(s, i + 1, Len(s)), sep)
    ELSE <<s>>

\* line.replace(label, '').strip()
Value(line, label) == Strip(Remove(line, label))

\* [item.strip() for item in value.split(',')]
Items(value) == [i \in 1..Len(Split(value, ",")) |-> Strip(Split(value, ",")[i])]

\* one line of the response: the elif chain of the for loop
ParseLine(parsed, line) ==
    IF StartsWith(line, PrimaryRoleLabel)
    THEN [parsed EXCEPT !.primary_role = Value(line, PrimaryRoleLabel)]
    ELSE IF StartsWith(line, AlternativeRolesLabel)
    THEN [parsed EXCEPT
             !.alternative_roles = Items(Value(line, AlternativeRolesLabel))]
    ELSE IF StartsWith(line, CareerLevelLabel)
    THEN [parsed EXCEPT !.career_level = Value(line, CareerLevelLabel)]
    ELSE IF StartsWith(line, KeyStrengthsLabel)
    THEN [parsed EXCEPT
             !.key_strengths = Items(Value(line, KeyStrengthsLabel))]
    ELSE IF StartsWith(line, RecommendedKeywordsLabel)
    THEN [parsed EXCEPT
             !.recommended_keywords = Items(Value(line, RecommendedKeywordsLabel))]
    ELSE parsed

Newline == "\n"

\* lines = response.split('\n')
ResponseLines == Split(response, Newline)

MaxLines == 3

\* lines a model may answer with: labeled ones with a value, a label with
\* nothing or a blank after it, an indented label, chatter, an empty line
AnswerLines ==
    {PrimaryRoleLabel \o <<" ", "Q", "a">>,
     PrimaryRoleLabel,
     Space \o PrimaryRoleLabel \o <<" ", "Q", "a">>,
     AlternativeRolesLabel \o <<" ", "M", ",", " ", "p">>,
     AlternativeRolesLabel \o Space,
     CareerLevelLabel \o <<" ", "S", "r">>,
     KeyStrengthsLabel \o <<" ", "k">>,
     RecommendedKeywordsLabel \o <<" ", "p", ",", "q">>,
     <<"H", "i">>,
     <<>>}

RECURSIVE JoinLines(_)
JoinLines(ls) ==
    IF Len(ls) = 0 THEN <<>>
    ELSE IF Len(ls) = 1 THEN ls[1]
    ELSE ls[1] \o <<Newline>> \o JoinLines(Tail(ls))

\* what ask_ollama returns: the model's text, or '' when the call failed
Responses == {JoinLines(ls) : ls \in SeqsUpTo(AnswerLines, MaxLines)}

\* parsed_roles holds the defaults and the response is in
InitRoles ==
    /\ pc = "r_start"
    /\ roles = DefaultRoles
    /\ response \in Responses
    /\ limit = 0 /\ ri = 0 /\ result = <<>>
    /\ NoSerp /\ NoJobicy /\ NoMapping

detectionIdle == <<limit, serpVars, jobicyVars, job, jd, result, response>>

\* if response: lines = response.split('\n')
CheckResponse ==
    /\ pc = "r_start"
    /\ IF response = <<>>
       THEN pc' = "r_done" /\ UNCHANGED ri
       ELSE pc' = "lines" /\ ri' = 1
    /\ UNCHANGED <<roles, detectionIdle>>

\* for line in lines: one line is parsed
ParseStep ==
    /\ pc = "lines"
    /\ ri <= Len(ResponseLines)
    /\ roles' = ParseLine(roles, ResponseLines[ri])
    /\ ri' = ri + 1
    /\ UNCHANGED <<pc, detectionIdle>>

\* return parsed_roles
LinesExit ==
    /\ pc = "lines"
    /\ ri > Len(ResponseLines)
    /\ pc' = "r_done"
    /\ UNCHANGED <<roles, ri, detectionIdle>>

NextRoles == CheckResponse \/ ParseStep \/ LinesExit

SpecRoles == InitRoles /\ [][NextRoles]_vars

(***************************************************************************)
(* Defaults of detect_suitable_job_roles                                   *)
(***************************************************************************)
RoleFields ==
    {"primary_role", "alternative_roles", "career_level", "key_strengths",
     "recommended_keywords"}

LabelOf(field) ==
    CASE field = "primary_role" -> PrimaryRoleLabel
      [] field = "alternative_roles" -> AlternativeRolesLabel
      [] field = "career_level" -> CareerLevelLabel
      [] field = "key_strengths" -> KeyStrengthsLabel
      [] field = "recommended_keywords" -> RecommendedKeywordsLabel

\* the line is the field's labeled line and gives it a value
WellFormed(field, line) ==
    /\ StartsWith(line, LabelOf(field))
    /\ LET rest == SubSeq(line, Len(LabelOf(field)) + 1, Len(line))
       IN  Len(rest) > 0 /\ ~IsBlank(rest)

\* no line of the response gives the field a value
MissingOrMalformed(field) ==
    \A i \in 1..Len(ResponseLines) : ~WellFormed(field, ResponseLines[i])

\* C11: whatever the model answered, each of the five fields that is missing
\* or malformed in the response has its hardcoded default in the returned
\* profile; an empty response or one without any labeled line gives exactly
\* the defaults
DefaultsKept ==
    pc = "r_done" =>
        \A field \in RoleFields :
            MissingOrMalformed(field) => roles[field] = DefaultRoles[field]

====
